---- MODULE Spec2Model ----
(***************************************************************************)
(* Callback routing (UniversalCallback) and the external solver query      *)
(* (SMTSolverCommand::solve) of libsolidity/interface.                      *)
(*                                                                         *)
(* A caller thread issues requests either through the dispatcher's         *)
(* callback or directly at SMTSolverCommand::solve.  solve is modelled     *)
(* statement by statement where another process (the spawned solver) can   *)
(* interleave: the child writes lines to the pipe and exits while the      *)
(* parent polls running() and reads with getline.                          *)
(***************************************************************************)
EXTENDS Integers, Sequences, FiniteSets, TLC

(* ---------------------------------------------------------------------- *)
(* Bounds of the model                                                     *)
(* ---------------------------------------------------------------------- *)
MaxLines == 2           \* most lines one solver process writes to stdout

Threads == {"t1", "t2"} \* caller threads that exist
Callers == {"t1"}       \* threads that issue requests under Spec (one in flight)

\* payloads of a request, as character sequences: a path for ReadFile, the
\* query text for SMTQuery (the empty text, two one-character texts that
\* differ, and a longer text of which one of them is a proper prefix)
Payloads == {<<>>, <<"a">>, <<"b">>, <<"a", "b">>}

\* a line the solver process writes: the empty line or some text
LineVals == {"", "sat", "unsat"}

(* ---------------------------------------------------------------------- *)
(* ReadCallback: kinds and Result                                          *)
(* ---------------------------------------------------------------------- *)
ReadFileKind == "source"
SMTQueryKind == "smt-query"
Kinds == {ReadFileKind, SMTQueryKind, "other"}

Result(s, d) == [type |-> "result", success |-> s, data |-> d]
\* an exception that leaves the function instead of a Result
Fault(msg) == [type |-> "fault", success |-> FALSE, data |-> msg]
NoOutcome == [type |-> "none", success |-> FALSE, data |-> ""]

\* what FileReader::readFile may answer (external collaborator)
FileBackendResults == {Result(TRUE, "contents"), Result(FALSE, "File not found.")}

(* ---------------------------------------------------------------------- *)
(* UniversalCallback::callback                                             *)
(* ---------------------------------------------------------------------- *)
\* the if / else-if chain of the lambda
RouteSwapped(k) ==
  IF k = ReadFileKind THEN "solve"
  ELSE IF k = SMTQueryKind THEN "readFile"
  ELSE "fault"
RouteElse(k) ==
  IF k = ReadFileKind THEN "readFile" ELSE "solve"
Route(k) ==
  IF k = ReadFileKind THEN "readFile"
  ELSE IF k = SMTQueryKind THEN "solve"
  ELSE "fault"

\* `return backend(...)`: the backend's Result is the lambda's Result
Forward(r) == r

UnknownKindFault == Fault("Unknown callback kind.")

(* ---------------------------------------------------------------------- *)
(* SMTSolverCommand::solve: pure parts                                     *)
(* ---------------------------------------------------------------------- *)
WrongKindDiag(k) == "SMTQuery callback used as callback kind " \o k
DiagTempDir == "boost::filesystem::temp_directory_path"
DiagSpawn == "execve failed"
DiagWait == "waitpid(2) failed"

NotFoundResultOk == Result(TRUE, "")
NotFoundResult == Result(FALSE, "Eldarica binary not found.")

\* catch (...): every exception becomes a failed Result carrying the diagnostic
CatchAllRethrow(diag) == Fault(diag)
CatchAll(diag) == Result(FALSE, "Unknown exception in SMTQuery callback: " \o diag)

\* boost::join(data, "\n")
RECURSIVE JoinLines(_)
JoinLines(lines) ==
  IF lines = <<>> THEN ""
  ELSE IF Len(lines) = 1 THEN lines[1]
  ELSE lines[1] \o "\n" \o JoinLines(Tail(lines))

\* if (!line.empty()) data.push_back(line)
PushLineAll(d, line) == Append(d, line)
PushLine(d, line) == IF line # "" THEN Append(d, line) ELSE d

SuccessResult(d) == Result(TRUE, JoinLines(d))

\* eld.running(): the process has not exited ("mute": it runs on after
\* closing its standard output)
Running(c) == c \in {"running", "mute"}

\* std::getline finds the stream at end of file: nothing is left to read and
\* the process has closed its standard output (by closing it, or by exiting)
AtEofNever(p, c) == FALSE
AtEof(p, c) == p = <<>> /\ c # "running"

\* ~child(): a child that is still running is terminated (killed and waited
\* for); one that has exited is reaped by the running() probe of the destructor
ChildDtorDetach(c) == c
ChildDtor(c) == IF c \in {"running", "mute", "zombie"} THEN "reaped" ELSE c

\* queryFileName = tempDir / "query.smt2": the same path in every call
QueryFileNamePerCall(t) == "/tmp/query-" \o t \o ".smt2"
QueryFileName(t) == "/tmp/query.smt2"
Paths == {QueryFileName(t) : t \in Threads}

\* a write of b at offset off of a file that holds content (the file is
\* filled up with NUL when it has become shorter than off in the meantime)
RECURSIVE Nuls(_)
Nuls(n) == IF n <= 0 THEN <<>> ELSE <<"NUL">> \o Nuls(n - 1)
WriteAt(content, off, b) ==
  IF b = <<>> THEN content
  ELSE LET padded == content \o Nuls(off - Len(content))
       IN SubSeq(padded, 1, off) \o b \o SubSeq(padded, off + Len(b) + 1, Len(padded))

\* ~ofstream(): whatever is still in the stream buffer reaches the file, at
\* the offset the stream has reached (off)
FlushOnCloseDiscard(f, isOpen, off, b) == f
FlushOnClose(f, isOpen, off, b) ==
  IF isOpen THEN [exists |-> TRUE, content |-> WriteAt(f.content, off, b)] ELSE f

\* search_path("eld"): the name searched for is fixed, whatever m_solverCmd is
SolverBinaryNameFromCmd(cmd) == cmd
SolverBinaryName(cmd) == "eld"

\* the arguments of the child: "-ssol", "-scex", queryFileName
SolverArgs(p) == <<"-ssol", "-scex", p>>

\* values of the constructor argument _solverCmd
SolverCmds == {"eld", "z3 -in"}

\* exit statuses of the solver process
ExitStatuses == {"zero", "nonzero"}

(* ---------------------------------------------------------------------- *)
(* State                                                                   *)
(* ---------------------------------------------------------------------- *)
VARIABLES
  pc,         \* per thread: where the call stands
  via,        \* per thread: "dispatch" (through the callback) or "direct"
  kind,       \* per thread: _kind of the call
  payload,    \* per thread: _data / _query of the call
  invoked,    \* per thread: backend operations the call has invoked
  backendRet, \* per thread: what the invoked backend returned
  outcome,    \* per thread: what the call gave its caller
  path,       \* per thread: queryFileName, or "unset"
  opened,     \* per thread: state of queryFile ("unset", "open", "failed")
  buf,        \* per thread: characters still in queryFile's stream buffer
  searchName, \* per thread: the name given to search_path, or "unset"
  found,      \* per thread: eldBin ("unset", "yes", "no")
  argv,       \* per thread: the arguments the child was started with
  child,      \* per thread: the process eld ("none", "running", "mute",
              \*             "zombie", "reaped")
  exitStatus, \* per thread: exit status of the child ("none" while it has not exited)
  pipe,       \* per thread: lines written by the child and not yet read
  emitted,    \* per thread: every line the child has written, in order
  data,       \* per thread: vector<string> data
  raised,     \* per thread: diagnostic of the exception thrown in the call, or "none"
  fs,         \* the files at the query file paths
  solverCmd   \* m_solverCmd of the solver backend

vars == <<pc, via, kind, payload, invoked, backendRet, outcome, path, opened, buf,
          searchName, found, argv, child, exitStatus, pipe, emitted, data, raised,
          fs, solverCmd>>

NoFile == [exists |-> FALSE, content |-> <<>>]

\* SMTSolverCommand(_solverCmd) and UniversalCallback(_fileReader, _solver)
Init ==
  /\ pc = [t \in Threads |-> "idle"]
  /\ via = [t \in Threads |-> "none"]
  /\ kind = [t \in Threads |-> ""]
  /\ payload = [t \in Threads |-> <<>>]
  /\ invoked = [t \in Threads |-> {}]
  /\ backendRet = [t \in Threads |-> NoOutcome]
  /\ outcome = [t \in Threads |-> NoOutcome]
  /\ path = [t \in Threads |-> "unset"]
  /\ opened = [t \in Threads |-> "unset"]
  /\ buf = [t \in Threads |-> <<>>]
  /\ searchName = [t \in Threads |-> "unset"]
  /\ found = [t \in Threads |-> "unset"]
  /\ argv = [t \in Threads |-> <<>>]
  /\ child = [t \in Threads |-> "none"]
  /\ exitStatus = [t \in Threads |-> "none"]
  /\ pipe = [t \in Threads |-> <<>>]
  /\ emitted = [t \in Threads |-> <<>>]
  /\ data = [t \in Threads |-> <<>>]
  /\ raised = [t \in Threads |-> "none"]
  /\ fs = [p \in Paths |-> NoFile]
  /\ solverCmd \in SolverCmds

\* the variables of a call that only its entry sets
callVars == <<via, kind, payload, invoked>>

(* ---------------------------------------------------------------------- *)
(* Entering a call                                                         *)
(* ---------------------------------------------------------------------- *)
CanCall(t) == pc[t] \in {"idle", "done"}

\* the locals of a fresh call
Enter(t, v, k, p) ==
  /\ via' = [via EXCEPT ![t] = v]
  /\ kind' = [kind EXCEPT ![t] = k]
  /\ payload' = [payload EXCEPT ![t] = p]
  /\ path' = [path EXCEPT ![t] = "unset"]
  /\ opened' = [opened EXCEPT ![t] = "unset"]
  /\ buf' = [buf EXCEPT ![t] = <<>>]
  /\ searchName' = [searchName EXCEPT ![t] = "unset"]
  /\ found' = [found EXCEPT ![t] = "unset"]
  /\ argv' = [argv EXCEPT ![t] = <<>>]
  /\ child' = [child EXCEPT ![t] = "none"]
  /\ exitStatus' = [exitStatus EXCEPT ![t] = "none"]
  /\ pipe' = [pipe EXCEPT ![t] = <<>>]
  /\ emitted' = [emitted EXCEPT ![t] = <<>>]
  /\ data' = [data EXCEPT ![t] = <<>>]
  /\ raised' = [raised EXCEPT ![t] = "none"]

\* UniversalCallback::callback's lambda, ReadFile branch: readFile answers
\* (m_solver.solver() only hands out the solver's callback)
DispatchReadFileStaging(t, k, p) ==
  /\ CanCall(t)
  /\ Route(k) = "readFile"
  /\ Enter(t, "dispatch", k, p)
  /\ \E r \in FileBackendResults :
       /\ backendRet' = [backendRet EXCEPT ![t] = r]
       /\ outcome' = [outcome EXCEPT ![t] = Forward(r)]
  /\ invoked' = [invoked EXCEPT ![t] = {<<"readFile", k, p>>}]
  /\ pc' = [pc EXCEPT ![t] = "done"]
  /\ fs' = [fs EXCEPT ![QueryFileName(t)] = [exists |-> TRUE, content |-> p]]
  /\ UNCHANGED solverCmd
DispatchReadFile(t, k, p) ==
  /\ CanCall(t)
  /\ Route(k) = "readFile"
  /\ Enter(t, "dispatch", k, p)
  /\ \E r \in FileBackendResults :
       /\ backendRet' = [backendRet EXCEPT ![t] = r]
       /\ outcome' = [outcome EXCEPT ![t] = Forward(r)]
  /\ invoked' = [invoked EXCEPT ![t] = {<<"readFile", k, p>>}]
  /\ pc' = [pc EXCEPT ![t] = "done"]
  /\ UNCHANGED <<fs, solverCmd>>

\* the lambda, SMTQuery branch: control enters SMTSolverCommand::solve
DispatchSolve(t, k, p) ==
  /\ CanCall(t)
  /\ Route(k) = "solve"
  /\ Enter(t, "dispatch", k, p)
  /\ backendRet' = [backendRet EXCEPT ![t] = NoOutcome]
  /\ outcome' = [outcome EXCEPT ![t] = NoOutcome]
  /\ invoked' = [invoked EXCEPT ![t] = {<<"solve", k, p>>}]
  /\ pc' = [pc EXCEPT ![t] = "solve"]
  /\ UNCHANGED <<fs, solverCmd>>

\* the lambda, neither kind: solAssert(false, "Unknown callback kind.")
DispatchUnknown(t, k, p) ==
  /\ CanCall(t)
  /\ Route(k) = "fault"
  /\ Enter(t, "dispatch", k, p)
  /\ backendRet' = [backendRet EXCEPT ![t] = NoOutcome]
  /\ outcome' = [outcome EXCEPT ![t] = UnknownKindFault]
  /\ invoked' = [invoked EXCEPT ![t] = {}]
  /\ pc' = [pc EXCEPT ![t] = "done"]
  /\ UNCHANGED <<fs, solverCmd>>

\* SMTSolverCommand::solve called by its own caller, not through the dispatcher
CallSolve(t, k, q) ==
  /\ CanCall(t)
  /\ Enter(t, "direct", k, q)
  /\ backendRet' = [backendRet EXCEPT ![t] = NoOutcome]
  /\ outcome' = [outcome EXCEPT ![t] = NoOutcome]
  /\ invoked' = [invoked EXCEPT ![t] = {<<"solve", k, q>>}]
  /\ pc' = [pc EXCEPT ![t] = "solve"]
  /\ UNCHANGED <<fs, solverCmd>>

(* ---------------------------------------------------------------------- *)
(* SMTSolverCommand::solve                                                 *)
(* ---------------------------------------------------------------------- *)
\* control leaves the try block with r (a return statement, or the handler's
\* return after unwinding): the locals queryFile, pipe, eld, data are
\* destroyed. c is the state of the child process when the block is left.
\* Leaves alone: callVars, path, opened, searchName, found, argv, exitStatus,
\* emitted, raised, solverCmd.
Leave(t, r, c) ==
  /\ backendRet' = [backendRet EXCEPT ![t] = r]
  /\ outcome' = [outcome EXCEPT ![t] = IF via[t] = "dispatch" THEN Forward(r) ELSE r]
  /\ fs' = IF opened[t] = "open"
           THEN [fs EXCEPT ![path[t]] =
                   FlushOnClose(@, TRUE, Len(payload[t]) - Len(buf[t]), buf[t])]
           ELSE fs
  /\ buf' = [buf EXCEPT ![t] = <<>>]
  /\ child' = [child EXCEPT ![t] = ChildDtor(c)]
  /\ pipe' = [pipe EXCEPT ![t] = <<>>]
  /\ data' = [data EXCEPT ![t] = <<>>]
  /\ pc' = [pc EXCEPT ![t] = "done"]

\* an exception with diagnostic diag is thrown inside the try block
Throw(t, diag) ==
  /\ raised' = [raised EXCEPT ![t] = diag]
  /\ Leave(t, CatchAll(diag), child[t])

\* if (_kind != kindString(SMTQuery)) solAssert(false, ...)
KindCheck(t) ==
  /\ pc[t] = "solve"
  /\ IF kind[t] # SMTQueryKind
     THEN /\ Throw(t, WrongKindDiag(kind[t]))
          /\ UNCHANGED <<callVars, path, opened, searchName, found, argv, exitStatus,
                         emitted, solverCmd>>
     ELSE /\ pc' = [pc EXCEPT ![t] = "tempdir"]
          /\ UNCHANGED <<callVars, backendRet, outcome, path, opened, buf, searchName,
                         found, argv, child, exitStatus, pipe, emitted, data, raised,
                         fs, solverCmd>>

\* tempDir = temp_directory_path(); queryFileName = tempDir / "query.smt2"
\* (temp_directory_path throws when there is no usable temp directory)
TempDir(t) ==
  /\ pc[t] = "tempdir"
  /\ \/ /\ pc' = [pc EXCEPT ![t] = "open"]
        /\ path' = [path EXCEPT ![t] = QueryFileName(t)]
        /\ UNCHANGED <<callVars, backendRet, outcome, opened, buf, searchName,
                       found, argv, child, exitStatus, pipe, emitted, data, raised,
                       fs, solverCmd>>
     \/ /\ Throw(t, DiagTempDir)
        /\ UNCHANGED <<callVars, path, opened, searchName, found, argv, exitStatus,
                       emitted, solverCmd>>

\* queryFile = ofstream(queryFileName); queryFile << _query;
\* Opening truncates the file; when it fails the stream is in a failed state
\* and the insertion does nothing (no exception mask is set).  The insertion
\* goes to the stream buffer: how many characters have reached the file when
\* it returns (n) depends on the buffer size; there is no flush or close.
OpenWrite(t) ==
  /\ pc[t] = "open"
  /\ \/ \E n \in 0..Len(payload[t]) :
          /\ opened' = [opened EXCEPT ![t] = "open"]
          /\ fs' = [fs EXCEPT ![path[t]] =
                      [exists |-> TRUE, content |-> SubSeq(payload[t], 1, n)]]
          /\ buf' = [buf EXCEPT ![t] = SubSeq(payload[t], n + 1, Len(payload[t]))]
     \/ /\ opened' = [opened EXCEPT ![t] = "failed"]
        /\ UNCHANGED <<fs, buf>>
  /\ pc' = [pc EXCEPT ![t] = "search"]
  /\ UNCHANGED <<callVars, backendRet, outcome, path, searchName, found, argv, child,
                 exitStatus, pipe, emitted, data, raised, solverCmd>>

\* eldBin = search_path("eld"); if (eldBin.empty()) return {false, "... not found."}
Search(t) ==
  /\ pc[t] = "search"
  /\ searchName' = [searchName EXCEPT ![t] = SolverBinaryName(solverCmd)]
  /\ \/ /\ found' = [found EXCEPT ![t] = "yes"]
        /\ pc' = [pc EXCEPT ![t] = "spawn"]
        /\ UNCHANGED <<backendRet, outcome, buf, child, pipe, data, fs>>
     \/ /\ found' = [found EXCEPT ![t] = "no"]
        /\ Leave(t, NotFoundResult, child[t])
  /\ UNCHANGED <<callVars, path, opened, argv, exitStatus, emitted, raised, solverCmd>>

\* ipstream pipe; child eld(eldBin, "-ssol", "-scex", queryFileName, std_out > pipe)
\* (the constructor throws process_error when the launch fails)
Spawn(t) ==
  /\ pc[t] = "spawn"
  /\ \/ /\ child' = [child EXCEPT ![t] = "running"]
        /\ argv' = [argv EXCEPT ![t] = SolverArgs(path[t])]
        /\ pc' = [pc EXCEPT ![t] = "running"]
        /\ UNCHANGED <<backendRet, outcome, buf, pipe, data, raised, fs>>
     \/ /\ Throw(t, DiagSpawn)
        /\ UNCHANGED argv
  /\ UNCHANGED <<callVars, path, opened, searchName, found, exitStatus, emitted,
                 solverCmd>>

\* while (eld.running() && ...): running() polls the child without blocking;
\* when the child has exited the poll collects its exit status
CheckRunning(t) ==
  /\ pc[t] = "running"
  /\ IF Running(child[t])
     THEN /\ pc' = [pc EXCEPT ![t] = "getline"]
          /\ UNCHANGED child
     ELSE /\ pc' = [pc EXCEPT ![t] = "wait"]
          /\ child' = [child EXCEPT ![t] = "reaped"]
  /\ UNCHANGED <<callVars, backendRet, outcome, path, opened, buf, searchName, found,
                 argv, exitStatus, pipe, emitted, data, raised, fs, solverCmd>>

\* ... && std::getline(pipe, line)) if (!line.empty()) data.push_back(line);
\* getline blocks until a line is there or the stream is at end of file
Getline(t) ==
  /\ pc[t] = "getline"
  /\ \/ /\ pipe[t] # <<>>
        /\ data' = [data EXCEPT ![t] = PushLine(data[t], Head(pipe[t]))]
        /\ pipe' = [pipe EXCEPT ![t] = Tail(pipe[t])]
        /\ pc' = [pc EXCEPT ![t] = "running"]
     \/ /\ AtEof(pipe[t], child[t])
        /\ pc' = [pc EXCEPT ![t] = "wait"]
        /\ UNCHANGED <<data, pipe>>
  /\ UNCHANGED <<callVars, backendRet, outcome, path, opened, buf, searchName, found,
                 argv, child, exitStatus, emitted, raised, fs, solverCmd>>

\* eld.wait(); return Result{true, join(data, "\n")};
\* wait() blocks until the child has exited and collects it; it does nothing
\* when running() has collected the child already, and throws process_error
\* when waiting fails.  The exit status is not looked at.
WaitReturn(t) ==
  /\ pc[t] = "wait"
  /\ \/ /\ ~Running(child[t])
        /\ Leave(t, SuccessResult(data[t]), "reaped")
        /\ UNCHANGED raised
     \/ /\ child[t] # "reaped"
        /\ Throw(t, DiagWait)
  /\ UNCHANGED <<callVars, path, opened, searchName, found, argv, exitStatus, emitted,
                 solverCmd>>

(* ---------------------------------------------------------------------- *)
(* The solver process                                                      *)
(* ---------------------------------------------------------------------- *)
\* the child writes one more line to its standard output
ChildWrite(t, l) ==
  /\ child[t] = "running"
  /\ Len(emitted[t]) < MaxLines
  /\ pipe' = [pipe EXCEPT ![t] = Append(pipe[t], l)]
  /\ emitted' = [emitted EXCEPT ![t] = Append(emitted[t], l)]
  /\ UNCHANGED <<pc, callVars, backendRet, outcome, path, opened, buf, searchName,
                 found, argv, child, exitStatus, data, raised, fs, solverCmd>>

\* the child closes its standard output and runs on
ChildClose(t) ==
  /\ child[t] = "running"
  /\ child' = [child EXCEPT ![t] = "mute"]
  /\ UNCHANGED <<pc, callVars, backendRet, outcome, path, opened, buf, searchName,
                 found, argv, exitStatus, pipe, emitted, data, raised, fs, solverCmd>>

\* the child exits with status s; its end of the pipe is closed
ChildExit(t, s) ==
  /\ Running(child[t])
  /\ child' = [child EXCEPT ![t] = "zombie"]
  /\ exitStatus' = [exitStatus EXCEPT ![t] = s]
  /\ UNCHANGED <<pc, callVars, backendRet, outcome, path, opened, buf, searchName,
                 found, argv, pipe, emitted, data, raised, fs, solverCmd>>

(* ---------------------------------------------------------------------- *)
(* Specification: one caller, one request in flight at a time              *)
(* ---------------------------------------------------------------------- *)
Next ==
  \/ \E t \in Callers, k \in Kinds, p \in Payloads : DispatchReadFile(t, k, p)
  \/ \E t \in Callers, k \in Kinds, p \in Payloads : DispatchSolve(t, k, p)
  \/ \E t \in Callers, k \in Kinds, p \in Payloads : DispatchUnknown(t, k, p)
  \/ \E t \in Callers, k \in Kinds, q \in Payloads : CallSolve(t, k, q)
  \/ \E t \in Callers : KindCheck(t)
  \/ \E t \in Callers : TempDir(t)
  \/ \E t \in Callers : OpenWrite(t)
  \/ \E t \in Callers : Search(t)
  \/ \E t \in Callers : Spawn(t)
  \/ \E t \in Callers : CheckRunning(t)
  \/ \E t \in Callers : Getline(t)
  \/ \E t \in Callers : WaitReturn(t)
  \/ \E t \in Threads, l \in LineVals : ChildWrite(t, l)
  \/ \E t \in Threads : ChildClose(t)
  \/ \E t \in Threads, s \in ExitStatuses : ChildExit(t, s)

Spec == Init /\ [][Next]_vars

(* ---------------------------------------------------------------------- *)
(* The same, with the scheduling the calling thread has: solve is          *)
(* straight-line code, so a step of it that can be taken is taken; a call   *)
(* that blocks (getline, wait) goes on once it can.  Nothing is assumed of  *)
(* the solver process, of the callers issuing requests, or of faults.       *)
(* ---------------------------------------------------------------------- *)
SolveProgress(t) ==
  \/ KindCheck(t)
  \/ TempDir(t)
  \/ OpenWrite(t)
  \/ Search(t)
  \/ Spawn(t)
  \/ CheckRunning(t)
  \/ Getline(t)
  \/ (WaitReturn(t) /\ raised'[t] = raised[t])

FairSpec == Init /\ [][Next]_vars /\ \A t \in Callers : WF_vars(SolveProgress(t))

(* ---------------------------------------------------------------------- *)
(* Two solve calls in flight at the same time, one per thread, each with   *)
(* the SMTQuery kind; the solver is a stub that echoes the query file.     *)
(* ---------------------------------------------------------------------- *)
\* the text of a character sequence, as the string a line carries
RECURSIVE Text(_)
Text(cs) == IF cs = <<>> THEN "" ELSE cs[1] \o Text(Tail(cs))

\* the first and only request of thread t
ConcCall(t, q) ==
  /\ pc[t] = "idle"
  /\ CallSolve(t, SMTQueryKind, q)

\* the stub solver reads the file named by its last argument and writes the
\* text it finds there as one line
ChildEcho(t) ==
  /\ child[t] = "running"
  /\ emitted[t] = <<>>
  /\ fs[argv[t][3]].exists
  /\ LET line == Text(fs[argv[t][3]].content)
     IN /\ pipe' = [pipe EXCEPT ![t] = Append(pipe[t], line)]
        /\ emitted' = [emitted EXCEPT ![t] = Append(emitted[t], line)]
  /\ UNCHANGED <<pc, callVars, backendRet, outcome, path, opened, buf, searchName,
                 found, argv, child, exitStatus, data, raised, fs, solverCmd>>

NextConc ==
  \/ \E t \in Threads, q \in Payloads : ConcCall(t, q)
  \/ \E t \in Threads : KindCheck(t)
  \/ \E t \in Threads : TempDir(t)
  \/ \E t \in Threads : OpenWrite(t)
  \/ \E t \in Threads : Search(t)
  \/ \E t \in Threads : Spawn(t)
  \/ \E t \in Threads : CheckRunning(t)
  \/ \E t \in Threads : Getline(t)
  \/ \E t \in Threads : WaitReturn(t)
  \/ \E t \in Threads : ChildEcho(t)
  \/ \E t \in Threads, s \in ExitStatuses : ChildExit(t, s)

SpecConc == Init /\ [][NextConc]_vars

(* ---------------------------------------------------------------------- *)
(* Helpers of the properties                                               *)
(* ---------------------------------------------------------------------- *)
NonEmptyLines(ls) == SelectSeq(ls, LAMBDA l : l # "")
Spawned(t) == child[t] # "none"
Exited(t) == exitStatus[t] # "none"
Returned(t) == pc[t] = "done"

(* ---------------------------------------------------------------------- *)
(* Properties                                                              *)
(* ---------------------------------------------------------------------- *)

\* C1: a dispatch of the ReadFile kind invokes exactly readFile(kind, payload),
\* one of the SMTQuery kind exactly solve(kind, payload), never the other
\* backend, and what dispatch returns is the Result the backend returned,
\* whatever requests came before.
C1_DispatchForwards ==
  \A t \in Threads :
    via[t] = "dispatch" =>
      /\ kind[t] = ReadFileKind =>
           /\ invoked[t] = {<<"readFile", kind[t], payload[t]>>}
           /\ Returned(t)
      /\ kind[t] = SMTQueryKind =>
           invoked[t] = {<<"solve", kind[t], payload[t]>>}
      /\ (Returned(t) /\ kind[t] \in {ReadFileKind, SMTQueryKind}) =>
           /\ outcome[t].type = "result"
           /\ backendRet[t].type = "result"
           /\ outcome[t] = backendRet[t]

C1_Witness ==
  \E t \in Threads :
    /\ Returned(t) /\ via[t] = "dispatch" /\ kind[t] = SMTQueryKind
    /\ outcome[t] = Result(TRUE, "sat\nunsat")

\* C2: a dispatch of a kind that is neither ReadFile nor SMTQuery ends in a
\* fault, returns no Result and invokes neither backend.
C2_UnknownKindFaults ==
  \A t \in Threads :
    (via[t] = "dispatch" /\ kind[t] \notin {ReadFileKind, SMTQueryKind}) =>
      /\ Returned(t)
      /\ outcome[t].type = "fault"
      /\ invoked[t] = {}

C2_Witness ==
  \E t \in Threads :
    /\ Returned(t) /\ via[t] = "dispatch" /\ kind[t] = "other"
    /\ outcome[t] = Fault("Unknown callback kind.")

\* C3: solve called directly with a kind other than SMTQuery lets an
\* assertion fault reach its caller instead of returning a Result.
C3_WrongKindFaults ==
  \A t \in Threads :
    (Returned(t) /\ via[t] = "direct" /\ kind[t] # SMTQueryKind) =>
      outcome[t].type = "fault"

\* C4: when the query file cannot be opened, solve returns a failed Result
\* and neither searches for nor spawns the solver in that call.
C4_OpenFailureStops ==
  \A t \in Threads :
    opened[t] = "failed" =>
      /\ found[t] = "unset"
      /\ ~Spawned(t)
      /\ Returned(t) => (outcome[t].type = "result" /\ ~outcome[t].success)

\* C5: when solve returns success after the solver process wrote its lines
\* and exited, the data is every non-empty line the process wrote, in order,
\* joined by newlines, whatever the interleaving of writes, exit and reads.
C5_AllLinesCollected ==
  \A t \in Threads :
    (Returned(t) /\ Spawned(t) /\ Exited(t) /\ raised[t] = "none") =>
      outcome[t] = Result(TRUE, JoinLines(NonEmptyLines(emitted[t])))

\* C6: from the moment the child process of a call is spawned, the query
\* file it can read holds exactly that call's query text.
C6_ChildSeesOwnQuery ==
  \A t \in Threads :
    (child[t] = "running" /\ opened[t] = "open") =>
      (fs[path[t]].exists /\ fs[path[t]].content = payload[t])

\* C7: when the search finds no solver binary, solve returns exactly
\* Result{false, "Eldarica binary not found."} and spawns no child process.
C7_BinaryNotFound ==
  \A t \in Threads :
    found[t] = "no" =>
      /\ Returned(t)
      /\ backendRet[t] = Result(FALSE, "Eldarica binary not found.")
      /\ outcome[t] = Result(FALSE, "Eldarica binary not found.")
      /\ ~Spawned(t)

C7_Witness ==
  \E t \in Threads :
    /\ Returned(t) /\ found[t] = "no" /\ kind[t] = SMTQueryKind
    /\ opened[t] = "open" /\ payload[t] # <<>>

\* C8: a solve call with the SMTQuery kind that has returned has returned a
\* Result; when a fault was raised after the kind check the Result is a
\* failed one whose data carries the fault's diagnostic text.
C8_FaultsBecomeResults ==
  \A t \in Threads :
    (Returned(t) /\ kind[t] = SMTQueryKind) =>
      /\ outcome[t].type = "result"
      /\ raised[t] # "none" =>
           /\ ~outcome[t].success
           /\ outcome[t].data = "Unknown exception in SMTQuery callback: " \o raised[t]

C8_Witness ==
  \E t \in Threads :
    /\ Returned(t) /\ kind[t] = SMTQueryKind /\ via[t] = "direct"
    /\ raised[t] = DiagWait /\ emitted[t] # <<>>

C10_ChildReaped ==
  \A t \in Threads :
    (Returned(t) /\ Spawned(t)) => child[t] = "reaped"

C10_Witness ==
  \E t \in Threads :
    /\ Returned(t) /\ Spawned(t) /\ raised[t] = DiagWait
    /\ child[t] = "reaped"

\* C11: when the spawned solver process exits with a non-zero status, the
\* Result solve returns is a failed one.
C11_CrashIsFailure ==
  \A t \in Threads :
    (Returned(t) /\ Spawned(t) /\ exitStatus[t] = "nonzero") =>
      (outcome[t].type = "result" /\ ~outcome[t].success)

\* C12: solve blocks only on the child process.  Once the spawned child has
\* terminated, solve eventually returns; and a solve call that has spawned a
\* child does not return while that child is running with its standard
\* output open (there is no timeout and no cancellation).
C12_BoundedByChild ==
  /\ \A t \in Threads :
       (Spawned(t) /\ ~Running(child[t]) /\ ~Returned(t)) ~> Returned(t)
  /\ [][\A t \in Threads :
          (Spawned(t) /\ ~Returned(t) /\ pc'[t] = "done") => child[t] # "running"]_vars

C12_Witness ==
  \E t \in Threads :
    /\ pc[t] = "getline" /\ pipe[t] = <<>>
    /\ child[t] = "zombie" /\ emitted[t] # <<>>

\* C13: with two solve calls in flight there is no isolation: every call
\* computes the same query file path, so the file the child of one call is
\* told to read is the file any other call opens, truncates and writes; the
\* witness is a call whose Result is the echo of the other call's query.
C13_SharedQueryFile ==
  \A t \in Threads, u \in Threads :
    /\ (path[t] # "unset" /\ path[u] # "unset") => path[t] = path[u]
    /\ (Spawned(t) /\ opened[u] = "open") => argv[t][3] = path[u]

C13_Witness ==
  \E t \in Threads, u \in Threads :
    /\ t # u
    /\ payload[t] = <<"b">> /\ payload[u] = <<"a">>
    /\ opened[t] = "open" /\ Returned(t)
    /\ pc[u] \notin {"idle", "done"}
    /\ outcome[t] = Result(TRUE, Text(payload[u]))

\* C14: a dispatch with the ReadFile kind has no solver-side effect: the step
\* leaves the files at the query file paths and the solver backend's
\* configuration as they were, computes no query file path, opens nothing,
\* searches for no binary, spawns no process and never enters solve.
C14_ReadFileLeavesSolverAlone ==
  [][\A t \in Threads :
       (/\ CanCall(t)
        /\ via'[t] = "dispatch" /\ kind'[t] = ReadFileKind
        /\ pc'[t] = "done")
       => /\ fs' = fs
          /\ solverCmd' = solverCmd
          /\ path'[t] = "unset" /\ opened'[t] = "unset"
          /\ searchName'[t] = "unset" /\ found'[t] = "unset"
          /\ argv'[t] = <<>> /\ child'[t] = "none"
          /\ \A c \in invoked'[t] : c[1] # "solve"]_vars

C14_Witness ==
  \E t \in Threads :
    /\ pc[t] = "done" /\ via[t] = "dispatch" /\ kind[t] = ReadFileKind
    /\ outcome[t] \in FileBackendResults
    /\ fs[QueryFileName(t)].exists
    /\ fs[QueryFileName(t)].content # <<>>
    /\ fs[QueryFileName(t)].content # payload[t]

C16_IndependentOfSolverCmd ==
  /\ [][solverCmd' = solverCmd]_vars
  /\ [](\A t \in Threads :
          /\ searchName[t] # "unset" => searchName[t] = "eld"
          /\ Spawned(t) => argv[t] = <<"-ssol", "-scex", path[t]>>
          /\ (Returned(t) /\ \E c \in invoked[t] : c[1] = "solve") =>
               IF raised[t] # "none"
               THEN backendRet[t] =
                      Result(FALSE, "Unknown exception in SMTQuery callback: " \o raised[t])
               ELSE IF found[t] = "no"
               THEN backendRet[t] = Result(FALSE, "Eldarica binary not found.")
               ELSE \E n \in 0..Len(emitted[t]) :
                      backendRet[t] =
                        Result(TRUE, JoinLines(NonEmptyLines(SubSeq(emitted[t], 1, n)))))

C16_Witness ==
  \E t \in Threads :
    /\ solverCmd = "z3 -in"
    /\ Returned(t) /\ Spawned(t)
    /\ searchName[t] = "eld"
    /\ argv[t] = <<"-ssol", "-scex", "/tmp/query.smt2">>
    /\ outcome[t] = Result(TRUE, "sat")

====
